---- MODULE Spec2Model ----
(***************************************************************************)
(* Search loop of scripts/main.py: a bounded number of iterations, each    *)
(* GENERATE -> MAP -> CONVERT -> EVALUATE -> COMPARE, under one SIGALRM    *)
(* deadline.  A step of the model is one statement (or one blocking        *)
(* external call) of main(); the signal handler may run between any two.   *)
(*                                                                         *)
(* Files are modelled by their content: the set {i} holds the index of the *)
(* iteration whose data the file carries, {} is "no such file".  The four  *)
(* caller paths and the fixed intermediate paths are taken to be distinct, *)
(* and an external tool that exits 0 is taken to have written its output   *)
(* (the cost program excepted: its output file is read back by the code,   *)
(* so its presence and its text are modelled).                             *)
(***************************************************************************)
EXTENDS Integers, Sequences, FiniteSets, TLC

\* Number of iterations explored by the model (the program runs 3000).
MaxIterations == 3

\* main.py:179
num_iterations == MaxIterations

\* main.py:180, float('inf'): above every number the cost file can hold.
Inf == 1000

\* float('nan'), which float() at main.py:157 accepts: every comparison with
\* it is false.
NaN == Inf + 1

\* Texts that float() at main.py:157 parses, with their values.
FloatLiterals == {"1", "2", "inf", "nan"}

float(s) ==
    CASE s = "1" -> 1
      [] s = "2" -> 2
      [] s = "inf" -> Inf
      [] s = "nan" -> NaN

\* Python's < on floats.
Less(a, b) == a # NaN /\ b # NaN /\ a < b

\* First lines the cost program can leave in release/cost.txt, as the
\* sequence of their blank-separated words (after .strip()).
CostLines ==
    { <<"cost", "=", "1">>,
      <<"cost", "=", "2">>,
      <<"cost", "=", "inf">>,
      <<"cost", "=", "nan">>,
      <<"cost", "=", "abc">>,
      <<"cost", "=", "2", "=", "1">>,
      <<"cost", "=", "1", "2">>,
      <<"area", "=", "1">>,
      <<>> }

\* main.py:155, "cost = " in output_line
HasMarker(line) ==
    \E i \in 1..Len(line) : i + 2 <= Len(line) /\ line[i] = "cost" /\ line[i + 1] = "="

\* main.py:156, output_line.split('=')[1].strip(): the words between the
\* first "=" and the next one (or the end of the line).
EqPositions(line) == {i \in 1..Len(line) : line[i] = "="}

FirstEq(line) == CHOOSE i \in EqPositions(line) : \A j \in EqPositions(line) : i <= j

SecondEq(line) ==
    LET later == {i \in EqPositions(line) : i > FirstEq(line)}
    IN  IF later = {} THEN Len(line) + 1
        ELSE CHOOSE i \in later : \A j \in later : i <= j

cost_str(line) == SubSeq(line, FirstEq(line) + 1, SecondEq(line) - 1)

\* main.py:157: float() accepts one literal, nothing else.
ParsesAsFloat(words) == Len(words) = 1 /\ words[1] \in FloatLiterals

VARIABLES
    pc,                 \* position of main()
    iteration,          \* index the for loop of main.py:189 is at
    best_cost,          \* main.py:180
    current_cost,       \* main.py:203
    genlib_file,        \* release/genlib/lib.genlib
    mapped_file,        \* release/net_mapped/netlist_mapped.v
    converted_file,     \* release/net_complete/converted_design.v
    cost_file,          \* release/cost.txt
    best_netlist_file,  \* the file at args.output
    best_genlib_file,   \* the file at best_genlib.genlib
    alarm,              \* the SIGALRM timer of main.py:171
    exc,                \* exception propagating out of the try block
    output,             \* what the run has printed of its final report
    costs,              \* <<i, c>>: iteration i was evaluated at cost c
    compared,           \* iterations that went through COMPARE to its end
    failed              \* iterations that failed in MAP, CONVERT or EVALUATE

\* State of one call of generate_random_genlib (main.py:34-89).
VARIABLES
    data,               \* the library description, main.py:177
    gpc,                \* position of generate_random_genlib
    cell_index,         \* position of the for loop of main.py:42 in data.cells
    cell_attributes,    \* main.py:47
    padded,             \* cell_attributes as main.py:49 left it
    genlib_lines        \* lines written to release/genlib/lib.genlib

generator == <<data, gpc, cell_index, cell_attributes, padded, genlib_lines>>

vars ==
    <<pc, iteration, best_cost, current_cost, genlib_file, mapped_file,
      converted_file, cost_file, best_netlist_file, best_genlib_file, alarm,
      exc, output, costs, compared, failed, data, gpc, cell_index,
      cell_attributes, padded, genlib_lines>>

files == <<genlib_file, mapped_file, converted_file, cost_file>>

best == <<best_cost, best_netlist_file, best_genlib_file>>

history == <<costs, compared, failed>>

\* Positions inside the try block of main.py:173-217.
TryBlock ==
    {"load", "convert_abc", "loop", "generate", "map", "convert", "evaluate",
     "read_cost", "compare", "rename_netlist", "rename_genlib", "report"}

\* Positions at which the process has ended.
Terminated == {"done", "crashed"}

\* The generator seen from the search loop: one step (main.py:191), its
\* inner state left out.
GeneratorIdle ==
    /\ data = [attributes |-> <<>>, cells |-> <<>>]
    /\ gpc = "idle"
    /\ cell_index = 0
    /\ cell_attributes = <<>>
    /\ padded = <<>>
    /\ genlib_lines = <<>>

Init ==
    /\ GeneratorIdle
    /\ pc = "load"
    /\ iteration = 0
    /\ best_cost = Inf
    /\ current_cost = NaN
    /\ genlib_file = {}
    /\ mapped_file = {}
    /\ converted_file = {}
    /\ cost_file = [exists |-> FALSE, line |-> <<>>]
    /\ best_netlist_file = {}
    /\ best_genlib_file = {}
    /\ alarm = "armed"
    /\ exc = "none"
    /\ output = {}
    /\ costs = {}
    /\ compared = {}
    /\ failed = {}

\* An exception raised inside the try block that no except clause catches:
\* control goes to the finally block with the exception pending.
Raise(e) ==
    /\ pc' = "finally"
    /\ exc' = e

\* A loop that goes round without taking the next index.
SameIteration ==
    /\ pc' = "loop"
    /\ iteration' = iteration

\* The for statement of main.py:189 taking its next index; also where
\* every continue (main.py:196, 201, 206) leads.
NextIteration ==
    /\ pc' = "loop"
    /\ iteration' = iteration + 1

\* main.py:174-182: parse the arguments, load the library, initialise the
\* best-result slot.  json.load or open may raise.
load_library ==
    /\ pc = "load"
    /\ \/ pc' = "convert_abc" /\ exc' = exc
       \/ Raise("OSError")
    /\ UNCHANGED <<iteration, best, current_cost, files, alarm, output, history>>
    /\ UNCHANGED generator

\* The input conversion with its failure printed but not returned on.
convert_abc_without_return ==
    /\ pc = "convert_abc"
    /\ pc' = "loop"
    /\ \E returncode \in {0, 1} :
         output' = IF returncode # 0
                   THEN output \cup {"Failed to convert netlist to ABC format"}
                   ELSE output
    /\ UNCHANGED <<iteration, best, current_cost, files, alarm, exc, history>>
    /\ UNCHANGED generator

\* main.py:184-187 with main.py:25-32: one blocking call of the input
\* converter; a non-zero exit makes main() return.
convert_netlist_to_abc_format ==
    /\ pc = "convert_abc"
    /\ \E returncode \in {0, 1} :
         IF returncode # 0
         THEN /\ pc' = "finally"
              /\ output' = output \cup {"Failed to convert netlist to ABC format"}
         ELSE /\ pc' = "loop"
              /\ output' = output
    /\ UNCHANGED <<iteration, best, current_cost, files, alarm, exc, history>>
    /\ UNCHANGED generator

\* main.py:189: range(num_iterations) yields the next index or is exhausted.
loop_head ==
    /\ pc = "loop"
    /\ pc' = IF iteration < num_iterations THEN "generate" ELSE "report"
    /\ UNCHANGED <<iteration, best, current_cost, files, alarm, exc, output, history>>
    /\ UNCHANGED generator

\* main.py:191-192 with main.py:34-89 and 91-124: the candidate library is
\* written afresh (open(..., 'w')) and the engine script is written.
generate_random_genlib ==
    /\ pc = "generate"
    /\ genlib_file' = {iteration}
    /\ pc' = "map"
    /\ UNCHANGED <<iteration, best, current_cost, mapped_file, converted_file,
                   cost_file, alarm, exc, output, history>>
    /\ UNCHANGED generator

\* main.py:194-196 with main.py:126-132: one blocking call of the engine,
\* which maps against the candidate library it reads.
run_abc_script ==
    /\ pc = "map"
    /\ \E returncode \in {0, 1} :
         IF returncode # 0
         THEN /\ NextIteration
              /\ failed' = failed \cup {iteration}
              /\ mapped_file' = mapped_file
         ELSE /\ pc' = "convert"
              /\ iteration' = iteration
              /\ failed' = failed
              /\ mapped_file' = genlib_file
    /\ UNCHANGED <<best, current_cost, genlib_file, converted_file, cost_file,
                   alarm, exc, output, costs, compared>>
    /\ UNCHANGED generator

\* The output conversion with its exit status not looked at.
convert_without_check ==
    /\ pc = "convert"
    /\ pc' = "evaluate"
    /\ \E returncode \in {0, 1} :
         converted_file' = IF returncode # 0 THEN converted_file ELSE mapped_file
    /\ UNCHANGED <<iteration, best, current_cost, genlib_file, mapped_file,
                   cost_file, alarm, exc, output, history>>
    /\ UNCHANGED generator

\* main.py:198-201 with main.py:135-142: one blocking call of the output
\* converter on the mapped netlist.
convert_netlist_to_output_format ==
    /\ pc = "convert"
    /\ \E returncode \in {0, 1} :
         IF returncode # 0
         THEN /\ NextIteration
              /\ failed' = failed \cup {iteration}
              /\ converted_file' = converted_file
         ELSE /\ pc' = "evaluate"
              /\ iteration' = iteration
              /\ failed' = failed
              /\ converted_file' = mapped_file
    /\ UNCHANGED <<best, current_cost, genlib_file, mapped_file, cost_file,
                   alarm, exc, output, costs, compared>>
    /\ UNCHANGED generator

\* main.py:145-150 (and 204-206 for the None it returns): one blocking call
\* of the cost program, which may or may not (re)write release/cost.txt.
run_cost_program ==
    /\ pc = "evaluate"
    /\ \E returncode \in {0, 1} :
         IF returncode # 0
         THEN /\ NextIteration
              /\ failed' = failed \cup {iteration}
         ELSE /\ pc' = "read_cost"
              /\ iteration' = iteration
              /\ failed' = failed
    /\ \E written \in {cost_file} \cup {[exists |-> TRUE, line |-> l] : l \in CostLines} :
         cost_file' = written
    /\ UNCHANGED <<best, current_cost, genlib_file, mapped_file, converted_file,
                   alarm, exc, output, costs, compared>>
    /\ UNCHANGED generator

\* main.py:152-162 and 203-206: open the cost file, read its first line,
\* look for the marker, parse what follows the first "=".  open() and
\* float() raise; nothing in estimate_cost or in the loop catches them.
read_cost_file ==
    /\ pc = "read_cost"
    /\ IF ~cost_file.exists
       THEN /\ Raise("FileNotFoundError")
            /\ failed' = failed \cup {iteration}
            /\ UNCHANGED <<iteration, current_cost, costs>>
       ELSE IF ~HasMarker(cost_file.line)
       THEN /\ NextIteration
            /\ failed' = failed \cup {iteration}
            /\ UNCHANGED <<exc, current_cost, costs>>
       ELSE IF ~ParsesAsFloat(cost_str(cost_file.line))
       THEN /\ Raise("ValueError")
            /\ failed' = failed \cup {iteration}
            /\ UNCHANGED <<iteration, current_cost, costs>>
       ELSE /\ current_cost' = float(cost_str(cost_file.line)[1])
            /\ costs' = costs \cup {<<iteration, current_cost'>>}
            /\ pc' = "compare"
            /\ UNCHANGED <<iteration, exc, failed>>
    /\ UNCHANGED <<best, files, alarm, output, compared>>
    /\ UNCHANGED generator

\* A test that promotes every iteration that was given a cost.
AnyCost(cost, than) == cost # NaN

\* A comparison that also lets a tie through.
ImprovementOrTie(cost, than) == cost = than \/ Less(cost, than)

\* main.py:210
IsImprovement(cost, than) == Less(cost, than)

\* main.py:210-211: the test and the assignment of best_cost.
compare ==
    /\ pc = "compare"
    /\ IF IsImprovement(current_cost, best_cost)
       THEN /\ best_cost' = current_cost
            /\ pc' = "rename_netlist"
            /\ UNCHANGED <<iteration, compared>>
       ELSE /\ NextIteration
            /\ compared' = compared \cup {iteration}
            /\ best_cost' = best_cost
    /\ UNCHANGED <<best_netlist_file, best_genlib_file, current_cost, files,
                   alarm, exc, output, costs, failed>>
    /\ UNCHANGED generator

\* main.py:212: os.rename(converted_netlist, best_netlist).
rename_netlist ==
    /\ pc = "rename_netlist"
    /\ IF converted_file = {}
       THEN /\ Raise("FileNotFoundError")
            /\ UNCHANGED <<best_netlist_file, converted_file>>
       ELSE /\ best_netlist_file' = converted_file
            /\ converted_file' = {}
            /\ pc' = "rename_genlib"
            /\ exc' = exc
    /\ UNCHANGED <<iteration, best_cost, best_genlib_file, current_cost,
                   genlib_file, mapped_file, cost_file, alarm, output, history>>
    /\ UNCHANGED generator

\* main.py:213-214: os.rename(genlib_filename, best_genlib); the loop body
\* ends.
rename_genlib ==
    /\ pc = "rename_genlib"
    /\ IF genlib_file = {}
       THEN /\ Raise("FileNotFoundError")
            /\ UNCHANGED <<iteration, best_genlib_file, genlib_file, compared>>
       ELSE /\ best_genlib_file' = genlib_file
            /\ genlib_file' = {}
            /\ compared' = compared \cup {iteration}
            /\ NextIteration
            /\ exc' = exc
    /\ UNCHANGED <<best_cost, best_netlist_file, current_cost, mapped_file,
                   converted_file, cost_file, alarm, output, costs, failed>>
    /\ UNCHANGED generator

\* main.py:216-217: the two lines that report the best cost and the best
\* paths, after the loop.
report_best ==
    /\ pc = "report"
    /\ output' = output \cup {"best cost", "best paths"}
    /\ pc' = "finally"
    /\ UNCHANGED <<iteration, best, current_cost, files, alarm, exc, history>>
    /\ UNCHANGED generator

\* main.py:219-220
except_TimeoutError ==
    /\ pc = "except"
    /\ output' = output \cup {"The operation timed out"}
    /\ exc' = "none"
    /\ pc' = "finally"
    /\ UNCHANGED <<iteration, best, current_cost, files, alarm, history>>
    /\ UNCHANGED generator

\* main.py:223-225
finally_elapsed ==
    /\ pc = "finally"
    /\ output' = output \cup {"elapsed time"}
    /\ pc' = "disarm"
    /\ UNCHANGED <<iteration, best, current_cost, files, alarm, exc, history>>
    /\ UNCHANGED generator

\* main.py:226, then main() returns or the pending exception leaves it.
disarm ==
    /\ pc = "disarm"
    /\ alarm' = IF alarm = "armed" THEN "off" ELSE alarm
    /\ pc' = IF exc = "none" THEN "done" ELSE "crashed"
    /\ UNCHANGED <<iteration, best, current_cost, files, exc, output, history>>
    /\ UNCHANGED generator

\* A handler that returns instead of raising.
handler_returns ==
    /\ pc' = pc
    /\ exc' = exc

\* main.py:11-12: the handler raises TimeoutError in main(), at the
\* statement being executed.  Inside the try block the except clause of
\* main.py:219 catches it; in the finally block nothing does.
timeout_handler ==
    /\ exc' = "TimeoutError"
    /\ pc' = IF pc \in TryBlock THEN "except" ELSE "crashed"

\* main.py:170-171: the alarm goes off, once, at any point of the run; an
\* external call in flight is abandoned.
SIGALRM ==
    /\ alarm = "armed"
    /\ pc \notin Terminated
    /\ alarm' = "fired"
    /\ timeout_handler
    /\ UNCHANGED <<iteration, best, current_cost, files, output, history>>
    /\ UNCHANGED generator

\* The blocking external calls.
ExternalCall ==
    \/ convert_netlist_to_abc_format
    \/ run_abc_script
    \/ convert_netlist_to_output_format
    \/ run_cost_program

\* The statements main() executes by itself.
Statement ==
    \/ load_library
    \/ loop_head
    \/ generate_random_genlib
    \/ read_cost_file
    \/ compare
    \/ rename_netlist
    \/ rename_genlib
    \/ report_best
    \/ except_TimeoutError
    \/ finally_elapsed
    \/ disarm

Next ==
    \/ load_library
    \/ convert_netlist_to_abc_format
    \/ loop_head
    \/ generate_random_genlib
    \/ run_abc_script
    \/ convert_netlist_to_output_format
    \/ run_cost_program
    \/ read_cost_file
    \/ compare
    \/ rename_netlist
    \/ rename_genlib
    \/ report_best
    \/ except_TimeoutError
    \/ finally_elapsed
    \/ disarm
    \/ SIGALRM

Spec == Init /\ [][Next]_vars

\* The interpreter keeps executing main(); an external call in flight
\* either returns or is interrupted by the alarm.
FairSpec ==
    /\ Init
    /\ [][Next]_vars
    /\ WF_vars(Statement)
    /\ WF_vars(ExternalCall \/ SIGALRM)

(***************************************************************************)
(* The Candidate Generator, generate_random_genlib (main.py:34-89), step   *)
(* by step: for each cell, collect and pad the numeric attributes, shuffle *)
(* them, write the gate record or skip the cell.                           *)
(***************************************************************************)

\* Longest list of cells of the library descriptions explored.
MaxCells == 2

\* main.py:37
num_required_attributes == 7

\* Attribute names of the library descriptions explored, and the value
\* every cell gives to each.
AttrValue(attr) ==
    CASE attr = "leakage" -> 3
      [] attr = "derate" -> 1
      [] OTHER -> 2

SixAttributes ==
    <<"rise_block_delay", "fall_block_delay", "rise_fanout_delay",
      "fall_fanout_delay", "input_load", "max_load">>

\* data['information']['attributes'] (main.py:35): no attribute, two (the
\* second of value 1.0), six (listed after the two identifying fields),
\* seven, eight.
AttributeLists ==
    { <<>>,
      <<"area", "derate">>,
      <<"cell_name", "cell_type">> \o SixAttributes,
      <<"leakage">> \o SixAttributes,
      SixAttributes \o <<"slew", "leakage">> }

\* cell['cell_type'] of the cells explored: the eight types of
\* main.py:66-81 and one that is none of them.
CellTypes == {"and", "or", "xor", "nand", "nor", "not", "buf", "xnor", "dff"}

\* The types used in the lists of more than one cell.
SequenceTypes == {"nand", "not", "dff"}

CellNames == <<"G1", "G2", "G3", "G4">>

\* One entry of data['cells'] (main.py:42): its name, its type, and a value
\* for every declared attribute.
Cell(name, type, attributes) ==
    [f \in {"cell_name", "cell_type"} \cup {attributes[i] : i \in 1..Len(attributes)} |->
        IF f = "cell_name" THEN name
        ELSE IF f = "cell_type" THEN type
        ELSE AttrValue(f)]

TypeLists ==
    {<<t>> : t \in CellTypes} \cup
    UNION {[1..n -> SequenceTypes] : n \in 0..MaxCells}

\* The library descriptions json.load (main.py:177) may return.
Libraries ==
    {[attributes |-> a,
      cells |-> [i \in 1..Len(types) |-> Cell(CellNames[i], types[i], a)]] :
        a \in AttributeLists, types \in TypeLists}

\* main.py:47: the attributes that are not cell_name or cell_type, in
\* declaration order.
NumericAttributes(attributes) ==
    SelectSeq(attributes, LAMBDA attr : attr \notin {"cell_name", "cell_type"})

\* main.py:47: [float(cell[attr]) for attr in attributes if ...]
Declared(cell, attributes) ==
    [i \in 1..Len(NumericAttributes(attributes)) |->
        cell[NumericAttributes(attributes)[i]]]

\* Padding that puts the neutral values in front.
PadInFront(list) ==
    IF Len(list) < num_required_attributes
    THEN [i \in 1..(num_required_attributes - Len(list)) |-> 1] \o list
    ELSE list

\* main.py:48-49: append 1.0 while the list is shorter than 7.
Pad(list) ==
    IF Len(list) < num_required_attributes
    THEN list \o [i \in 1..(num_required_attributes - Len(list)) |-> 1]
    ELSE list

RECURSIVE Factorial(_)
Factorial(n) == IF n = 0 THEN 1 ELSE n * Factorial(n - 1)

\* list without its i-th element.
Without(list, i) == SubSeq(list, 1, i - 1) \o SubSeq(list, i + 1, Len(list))

\* main.py:52: element number n (from 0) of itertools.permutations(list),
\* which lists the permutations in lexicographic order of the positions.
RECURSIVE NthPermutation(_, _)
NthPermutation(list, n) ==
    IF Len(list) = 0 THEN <<>>
    ELSE LET f == Factorial(Len(list) - 1)
             q == (n \div f) + 1
         IN  <<list[q]>> \o NthPermutation(Without(list, q), n % f)

\* main.py:52-53
chosen_permutation(list, iter) ==
    NthPermutation(list, iter % Factorial(Len(list)))

Count(list, v) == Cardinality({i \in 1..Len(list) : list[i] = v})

Values(list) == {list[i] : i \in 1..Len(list)}

\* main.py:55: the orders random.shuffle can leave the list in.
Shuffles(list) ==
    {s \in [1..Len(list) -> Values(list)] :
        \A v \in Values(list) : Count(s, v) = Count(list, v)}

\* The assignment taking its values from the permutation selected by the
\* iteration index.
AssignedFromChosen(chosen, shuffled) == chosen

\* main.py:57-63: the values are read from cell_attributes, which
\* main.py:55 has shuffled; chosen_permutation is not read.
AssignedFrom(chosen, shuffled) == shuffled

\* The lists main.py:57-63 may read for a cell, in iteration iter.
ShuffleOutcomes(list, iter) ==
    {AssignedFrom(chosen_permutation(list, iter), s) : s \in Shuffles(list)}

\* A lookup that gives a cell of any other type the function of a buffer.
function_or_buffer(cell_type) ==
    CASE cell_type = "and" -> {"Y=A*B"}
      [] cell_type = "or" -> {"Y=A+B"}
      [] cell_type = "xor" -> {"Y=A*!B+!A*B"}
      [] cell_type = "nand" -> {"Y=!(A*B)"}
      [] cell_type = "nor" -> {"Y=!(A+B)"}
      [] cell_type = "not" -> {"Y=!A"}
      [] cell_type = "xnor" -> {"Y=!(A^B)"}
      [] OTHER -> {"Y=A"}

\* main.py:66-83: the function of the cell type; no function (continue) for
\* any other type.
function(cell_type) ==
    CASE cell_type = "and" -> {"Y=A*B"}
      [] cell_type = "or" -> {"Y=A+B"}
      [] cell_type = "xor" -> {"Y=A*!B+!A*B"}
      [] cell_type = "nand" -> {"Y=!(A*B)"}
      [] cell_type = "nor" -> {"Y=!(A+B)"}
      [] cell_type = "not" -> {"Y=!A"}
      [] cell_type = "buf" -> {"Y=A"}
      [] cell_type = "xnor" -> {"Y=!(A^B)"}
      [] OTHER -> {}

\* main.py:86
GateLine(cell_name, area, fn) ==
    [kind |-> "GATE", cell_name |-> cell_name, area |-> area, function |-> fn]

\* main.py:87
PinLine(input_load, max_load, rise_block_delay, rise_fanout_delay, fall_block_delay, fall_fanout_delay) ==
    [kind |-> "PIN", input_load |-> input_load, max_load |-> max_load,
     rise_block_delay |-> rise_block_delay,
     rise_fanout_delay |-> rise_fanout_delay,
     fall_block_delay |-> fall_block_delay,
     fall_fanout_delay |-> fall_fanout_delay]

\* main.py:57-87: the first seven values are bound to area,
\* rise_block_delay, fall_block_delay, rise_fanout_delay, fall_fanout_delay,
\* input_load, max_load; a cell of a known type gets its two lines, any
\* other none.
GateRecord(cell, values) ==
    LET area == values[1]
        rise_block_delay == values[2]
        fall_block_delay == values[3]
        rise_fanout_delay == values[4]
        fall_fanout_delay == values[5]
        input_load == values[6]
        max_load == values[7]
    IN  IF function(cell.cell_type) = {} THEN <<>>
        ELSE << GateLine(cell.cell_name, area,
                         CHOOSE fn \in function(cell.cell_type) : TRUE),
                PinLine(input_load, max_load, rise_block_delay,
                        rise_fanout_delay, fall_block_delay,
                        fall_fanout_delay) >>

\* main.py:34-89 as a whole: the files one call can leave, for a list of
\* cells, the declared attributes and the iteration index.
RECURSIVE GenlibFiles(_, _, _)
GenlibFiles(cells, attributes, iter) ==
    IF cells = <<>> THEN {<<>>}
    ELSE {GateRecord(Head(cells), values) \o rest :
            values \in ShuffleOutcomes(Pad(Declared(Head(cells), attributes)), iter),
            rest \in GenlibFiles(Tail(cells), attributes, iter)}

\* main.py:42-49: the for loop takes the next cell; its numeric attributes
\* are collected and padded.
collect_cell_attributes ==
    /\ gpc = "cell"
    /\ cell_index < Len(data.cells)
    /\ cell_index' = cell_index + 1
    /\ cell_attributes' = Pad(Declared(data.cells[cell_index'], data.attributes))
    /\ padded' = cell_attributes'
    /\ gpc' = "shuffle"
    /\ UNCHANGED <<data, genlib_lines>>
    /\ UNCHANGED <<pc, iteration, best, current_cost, files, alarm, exc, output, history>>

\* main.py:52-55: the permutation of the iteration is selected, then the
\* list is shuffled in place.
shuffle_cell_attributes ==
    /\ gpc = "shuffle"
    /\ cell_attributes' \in ShuffleOutcomes(cell_attributes, iteration)
    /\ gpc' = "write"
    /\ UNCHANGED <<data, cell_index, padded, genlib_lines>>
    /\ UNCHANGED <<pc, iteration, best, current_cost, files, alarm, exc, output, history>>

\* main.py:57-87: the values are bound and the record of the cell, if it
\* has one, is written.
write_gate ==
    /\ gpc = "write"
    /\ genlib_lines' =
          genlib_lines \o GateRecord(data.cells[cell_index], cell_attributes)
    /\ gpc' = "cell"
    /\ UNCHANGED <<data, cell_index, cell_attributes, padded>>
    /\ UNCHANGED <<pc, iteration, best, current_cost, files, alarm, exc, output, history>>

\* main.py:41 and 89 (and main.py:191-192): the cells are exhausted, the
\* file is closed and its name returned to main().
return_genlib ==
    /\ gpc = "cell"
    /\ cell_index = Len(data.cells)
    /\ gpc' = "returned"
    /\ genlib_file' = {iteration}
    /\ pc' = "map"
    /\ UNCHANGED <<data, cell_index, cell_attributes, padded, genlib_lines>>
    /\ UNCHANGED <<iteration, best, current_cost, mapped_file, converted_file,
                   cost_file, alarm, exc, output, history>>

\* main() calls the generator (main.py:191) for some iteration index, the
\* earlier iterations having been skipped at MAP, with some library
\* description; the file has just been opened for writing (main.py:41).
GenInit ==
    /\ data \in Libraries
    /\ gpc = "cell"
    /\ cell_index = 0
    /\ cell_attributes = <<>>
    /\ padded = <<>>
    /\ genlib_lines = <<>>
    /\ pc = "generate"
    /\ iteration \in 0..(num_iterations - 1)
    /\ best_cost = Inf
    /\ current_cost = NaN
    /\ genlib_file = IF iteration = 0 THEN {} ELSE {iteration - 1}
    /\ mapped_file = {}
    /\ converted_file = {}
    /\ cost_file = [exists |-> FALSE, line |-> <<>>]
    /\ best_netlist_file = {}
    /\ best_genlib_file = {}
    /\ alarm = "armed"
    /\ exc = "none"
    /\ output = {}
    /\ costs = {}
    /\ compared = {}
    /\ failed = 0..(iteration - 1)

GenNext ==
    \/ collect_cell_attributes
    \/ shuffle_cell_attributes
    \/ write_gate
    \/ return_genlib

GenSpec == GenInit /\ [][GenNext]_vars

(***************************************************************************)
(* Properties of the search loop.                                          *)
(***************************************************************************)

\* The best-result slot as main.py:180-182 leaves it.
SlotInitial ==
    /\ best_cost = Inf
    /\ best_netlist_file = {}
    /\ best_genlib_file = {}

\* The three statements of the promotion, main.py:211-213.
Promoting == {"compare", "rename_netlist", "rename_genlib"}

\* The smallest of a set of costs, infinity when there is none (NaN is no
\* cost that can be smallest).
MinCost(S) ==
    LET T == (S \ {NaN}) \cup {Inf}
    IN  CHOOSE m \in T : \A c \in T : m <= c

\* C1: the best cost never increases; the best cost, the best netlist file
\* and the best genlib file change only in the COMPARE step of an iteration
\* whose cost is strictly less than the best cost it is compared with, and
\* the promotion is entered on no other condition; an iteration whose cost
\* equals the best cost leaves all three as they are.
BestChangesOnlyOnStrictImprovement ==
    [][ /\ ~Less(best_cost, best_cost')
        /\ best_cost' # best_cost =>
             /\ pc = "compare"
             /\ Less(current_cost, best_cost)
             /\ best_cost' = current_cost
        /\ best_netlist_file' # best_netlist_file =>
             pc = "rename_netlist" /\ best_cost = current_cost
        /\ best_genlib_file' # best_genlib_file =>
             pc = "rename_genlib" /\ best_cost = current_cost
        /\ pc' = "rename_netlist" =>
             pc = "compare" /\ Less(current_cost, best_cost)
        /\ pc' = "rename_genlib" => pc = "rename_netlist"
        /\ (pc = "compare" /\ current_cost = best_cost) =>
             /\ UNCHANGED best
             /\ pc' \notin Promoting
      ]_vars

\* C1 witness: a later iteration tied with the best cost, went through
\* COMPARE, and the slot still holds the earlier iteration's files.
TieWasCompared ==
    \E i, j \in compared :
       /\ i < j
       /\ <<i, best_cost>> \in costs
       /\ <<j, best_cost>> \in costs
       /\ best_netlist_file = {i}
       /\ best_genlib_file = {i}

\* C2: in every state in which the run has ended, the best cost, the best
\* netlist file and the best genlib file stem from one and the same
\* iteration, or all three are still in their initial state.
PromotionIsAtomic ==
    pc \in Terminated =>
       \/ SlotInitial
       \/ \E i \in 0..(num_iterations - 1) :
             /\ <<i, best_cost>> \in costs
             /\ best_netlist_file = {i}
             /\ best_genlib_file = {i}

\* The final report: main.py:216 (best cost, best netlist path),
\* main.py:217 (best genlib path), main.py:225 (elapsed time).
FullReport == {"best cost", "best paths", "elapsed time"}

\* C3: a run that has ended, however it ended, has reported the best cost,
\* the best artifact paths and the elapsed time.
TerminationAlwaysReports ==
    pc \in Terminated => FullReport \subseteq output

\* The iteration is skipped: control is back at the for statement with the
\* next index and no exception is pending.
Skipped ==
    /\ pc' = "loop"
    /\ iteration' = iteration + 1
    /\ exc' = "none"

\* The four ways the Cost Evaluator Bridge fails.
CostProgramExitsNonZero == run_cost_program /\ pc' # "read_cost"

CostFileMissing == read_cost_file /\ ~cost_file.exists

MarkerMissing == read_cost_file /\ cost_file.exists /\ ~HasMarker(cost_file.line)

NotAFloat ==
    /\ read_cost_file
    /\ cost_file.exists
    /\ HasMarker(cost_file.line)
    /\ ~ParsesAsFloat(cost_str(cost_file.line))

EvaluateFails ==
    CostProgramExitsNonZero \/ CostFileMissing \/ MarkerMissing \/ NotAFloat

\* C4: each of the four failures of the Cost Evaluator Bridge makes only
\* the iteration fail: it is skipped, and the loop goes on to the next index
\* with no error propagating.
EvaluatorFailureSkipsIteration ==
    [][EvaluateFails => Skipped]_vars

MapFails == run_abc_script /\ pc' # "convert"

ConvertFails == convert_netlist_to_output_format /\ pc' # "evaluate"

\* C5: when MAP, CONVERT or EVALUATE fails, no later stage of the iteration
\* runs, the best-result slot is left as it is, and the loop advances to the
\* next iteration index.
StageFailureAdvancesLoop ==
    [][(MapFails \/ ConvertFails \/ EvaluateFails) =>
          (Skipped /\ UNCHANGED best)]_vars

\* Costs of the iterations that completed EVALUATE and COMPARE.
ComparedCosts == {cc[2] : cc \in {x \in costs : x[1] \in compared}}

\* C6: between two iterations, and at termination, the best cost is the
\* minimum of the costs of the iterations that completed EVALUATE and
\* COMPARE (infinity when there is none).
BestIsMinOfCompleted ==
    pc \in {"loop"} \cup Terminated => best_cost = MinCost(ComparedCosts)

\* The loop has ended by exhausting its iterations: control is at
\* main.py:216.
LoopExhausted == pc = "report"

\* The best files are those of the first iteration whose cost is the final
\* best cost.
BestFilesAreFirstBest ==
    \E i \in 0..(num_iterations - 1) :
       /\ <<i, best_cost>> \in costs
       /\ \A j \in 0..(i - 1) : <<j, best_cost>> \notin costs
       /\ best_netlist_file = {i}
       /\ best_genlib_file = {i}

\* C7 as stated: when the loop ends by exhausting its iterations with at
\* least one successful iteration, the best netlist file and the best
\* genlib file are those produced in the first iteration whose cost equals
\* the final best cost.
FirstBestIsKept ==
    (LoopExhausted /\ costs # {}) => BestFilesAreFirstBest

\* C7 as amended: the same, when at least one iteration's cost is strictly
\* less than the initial, infinite best cost.
FirstBestBelowInfinityIsKept ==
    (LoopExhausted /\ \E cc \in costs : Less(cc[2], Inf)) => BestFilesAreFirstBest

\* C7 witness: the loop is exhausted, a later iteration reached the same
\* cost as the best one, and an earlier one was worse.
LaterIterationBeatEarlier ==
    /\ LoopExhausted
    /\ \E i, j, k \in 0..(num_iterations - 1) :
          /\ i < j
          /\ j < k
          /\ \E c \in {cc[2] : cc \in costs} : <<i, c>> \in costs /\ Less(best_cost, c)
          /\ <<j, best_cost>> \in costs
          /\ <<k, best_cost>> \in costs
          /\ best_netlist_file = {j}
          /\ best_genlib_file = {j}

\* Positions of main() past the try block's body: the except clause, the
\* finally block, the end of the process.
PastTheLoop == {"except", "finally", "disarm"} \cup Terminated

\* C8: once the deadline has expired the run is at no position of the loop
\* or of an external call any more (so it starts no further external
\* process and no further iteration), and it goes on to terminate.
DeadlineEndsRun ==
    /\ [](alarm = "fired" => pc \in PastTheLoop)
    /\ [][alarm = "fired" => iteration' = iteration]_vars
    /\ (alarm = "fired" ~> pc \in Terminated)

\* C8 witness: the run has ended after the deadline expired while the
\* engine call of an iteration was in flight (its candidate library is
\* written, its mapped netlist is not).
DeadlineCutMapping ==
    /\ pc \in Terminated
    /\ alarm = "fired"
    /\ iteration < num_iterations
    /\ genlib_file = {iteration}
    /\ mapped_file # {iteration}

\* C9: if every iteration has failed in MAP, CONVERT or EVALUATE, the run
\* ends with the best-result slot in its initial state and with its report
\* made.
AllFailedStillReports ==
    (pc \in Terminated /\ failed = 0..(num_iterations - 1)) =>
       (SlotInitial /\ FullReport \subseteq output)

\* Positions of the loop body, main.py:190-214.
LoopBody ==
    {"generate", "map", "convert", "evaluate", "read_cost", "compare",
     "rename_netlist", "rename_genlib"}

\* C10: the run always terminates, and the loop body is never executed for
\* an index beyond the last one.
RunTerminates ==
    /\ <>(pc \in Terminated)
    /\ [](iteration <= num_iterations)
    /\ [](pc \in LoopBody => iteration < num_iterations)

\* C10 witness: the run has ended by exhausting the iterations, the last of
\* which went through COMPARE.
EndedByExhaustion ==
    /\ pc = "done"
    /\ alarm = "off"
    /\ iteration = num_iterations
    /\ (num_iterations - 1) \in compared
    /\ "best cost" \in output

\* The initial conversion of the input netlist has failed (main.py:186).
SetupFailed == "Failed to convert netlist to ABC format" \in output

\* C11: when the initial conversion fails the run aborts without attempting
\* an iteration: control is in the finally block or past it, no candidate
\* library, mapped netlist, converted netlist or cost file has been
\* produced, no iteration was evaluated or failed, and the best-result slot
\* is as initialised.
SetupFailureAbortsRun ==
    SetupFailed =>
       /\ pc \in {"finally", "disarm"} \cup Terminated
       /\ iteration = 0
       /\ genlib_file = {}
       /\ mapped_file = {}
       /\ converted_file = {}
       /\ ~cost_file.exists
       /\ costs = {}
       /\ failed = {}
       /\ SlotInitial

\* C11 witness: the run has ended after a failed initial conversion.
EndedBySetupFailure == SetupFailed /\ pc = "done"

(***************************************************************************)
(* Properties of the Candidate Generator.                                  *)
(***************************************************************************)

\* The cell types that have a function.
FixedFunctionSet == {"and", "or", "xor", "nand", "nor", "not", "buf", "xnor"}

\* The cells of the library whose type has a function, in input order.
CellsWithFunction ==
    SelectSeq(data.cells, LAMBDA cell : cell.cell_type \in FixedFunctionSet)

\* C12: the file the generator returns holds no more gate records than the
\* library has cells: one two-line record (GATE line, PIN line), in input
\* order, for each cell whose type is one of and/or/xor/nand/nor/not/buf/
\* xnor, and nothing for a cell of another type.
OneRecordPerKnownCell ==
    gpc = "returned" =>
       /\ Len(genlib_lines) = 2 * Len(CellsWithFunction)
       /\ Len(genlib_lines) <= 2 * Len(data.cells)
       /\ \A n \in 1..Len(CellsWithFunction) :
             /\ genlib_lines[2 * n - 1].kind = "GATE"
             /\ genlib_lines[2 * n - 1].cell_name = CellsWithFunction[n].cell_name
             /\ genlib_lines[2 * n].kind = "PIN"

\* C12 witness: a library of a cell of an unknown type followed by a cell
\* of a known one has been written as one record.
UnknownCellWasDropped ==
    /\ gpc = "returned"
    /\ Len(data.cells) = 2
    /\ data.cells[1].cell_type = "dff"
    /\ data.cells[2].cell_type = "nand"
    /\ Len(genlib_lines) = 2
    /\ genlib_lines[1].cell_name = "G2"

\* a is b in some order.
IsRearrangement(a, b) ==
    /\ Len(a) = Len(b)
    /\ \A v \in Values(a) \cup Values(b) : Count(a, v) = Count(b, v)

\* The seven values main.py:57-63 binds for the cell.
BoundValues == SubSeq(cell_attributes, 1, num_required_attributes)

\* C13: for every cell, whatever the number of declared numeric attributes,
\* the candidate parameter list is of exactly 7 values, and the 7 values
\* bound (and written) for the cell are a rearrangement of exactly that
\* list.
SevenValuesRearranged ==
    gpc = "write" =>
       /\ Len(padded) = num_required_attributes
       /\ IsRearrangement(BoundValues, padded)

\* Number of numeric attributes the library declares.
NumDeclared == Len(NumericAttributes(data.attributes))

\* C14: for a cell that declares k < 7 numeric attributes, the padded list
\* (before the shuffle) has length exactly 7: its first k entries are the
\* declared values in declaration order, its last 7 - k entries are 1.0.
PaddedTailIsNeutral ==
    (gpc \in {"shuffle", "write"} /\ NumDeclared < 7) =>
       /\ Len(padded) = 7
       /\ gpc = "shuffle" => cell_attributes = padded
       /\ \A i \in 1..NumDeclared :
             padded[i] = data.cells[cell_index][NumericAttributes(data.attributes)[i]]
       /\ \A i \in (NumDeclared + 1)..7 : padded[i] = 1

\* C14 witness: a cell declaring two numeric attributes, of values 2.0 and
\* 1.0, has been padded.
TwoAttributesPadded ==
    /\ gpc = "shuffle"
    /\ NumDeclared = 2
    /\ cell_attributes = <<2, 1, 1, 1, 1, 1, 1>>

\* C16: the files the generator can produce for the library are the same
\* for every iteration index (each set equals that of index 0), and the
\* values a call binds are those of a shuffle of the padded list, whatever
\* permutation its iteration index selected.
FilesIndependentOfIteration ==
    /\ (gpc = "cell" /\ cell_index = 0) =>
          LET files0 == GenlibFiles(data.cells, data.attributes, 0)
          IN  \A i \in 1..(num_iterations - 1) :
                 GenlibFiles(data.cells, data.attributes, i) = files0
    /\ gpc = "write" => cell_attributes \in Shuffles(padded)

\* C16 witness: a call for an iteration index whose selected permutation
\* differs from that of index 0 has returned a file with a record.
ReturnedWithOtherPermutation ==
    /\ gpc = "returned"
    /\ genlib_lines # <<>>
    /\ chosen_permutation(padded, iteration) # chosen_permutation(padded, 0)

(***************************************************************************)
(* Order of the stages and origin of the artifacts in the search loop.     *)
(***************************************************************************)

\* C15: the iteration index only ever goes up by one, and only when the
\* iteration at hand has finished or been skipped; an iteration starts at
\* GENERATE from the for statement only, and each stage is entered from the
\* stage before it (GENERATE, MAP, CONVERT, EVALUATE, COMPARE).  main() is
\* at one position at a time, so at most one external call is in flight.
IterationsRunInOrder ==
    [][ /\ iteration' \in {iteration, iteration + 1}
        /\ iteration' = iteration + 1 =>
              pc \in (LoopBody \ {"generate"}) /\ pc' = "loop"
        /\ (pc \in LoopBody /\ pc' = "loop") => iteration' = iteration + 1
        /\ (pc' = "generate" /\ pc # "generate") => pc = "loop"
        /\ (pc' = "map" /\ pc # "map") => pc = "generate"
        /\ (pc' = "convert" /\ pc # "convert") => pc = "map"
        /\ (pc' = "evaluate" /\ pc # "evaluate") => pc = "convert"
        /\ (pc' = "read_cost" /\ pc # "read_cost") => pc = "evaluate"
        /\ (pc' = "compare" /\ pc # "compare") => pc = "read_cost"
        /\ (pc' = "rename_netlist" /\ pc # "rename_netlist") => pc = "compare"
        /\ (pc' = "rename_genlib" /\ pc # "rename_genlib") =>
              pc = "rename_netlist"
      ]_vars

\* C15 witness: the second iteration is in the last statement of COMPARE,
\* the first one having finished or been skipped.
SecondIterationPromotes ==
    /\ iteration = 1
    /\ pc = "rename_genlib"
    /\ 0 \in compared \cup failed

\* Every artifact a stage is about to read was produced in the iteration at
\* hand.
ArtifactsAreCurrent ==
    /\ pc = "map" => genlib_file = {iteration}
    /\ pc = "convert" => mapped_file = {iteration}
    /\ pc \in {"evaluate", "read_cost", "compare", "rename_netlist"} =>
          converted_file = {iteration}
    /\ pc \in {"rename_netlist", "rename_genlib"} => genlib_file = {iteration}

\* C17: the candidate library read by MAP, the mapped netlist read by
\* CONVERT and the converted netlist read by EVALUATE and promoted by
\* COMPARE are those of the iteration at hand, also after a promotion has
\* moved files away; and a best file only ever changes into the artifact of
\* the iteration at hand, whose cost is the best cost.
ArtifactsStemFromIteration ==
    /\ []ArtifactsAreCurrent
    /\ [][ /\ best_netlist_file' # best_netlist_file =>
                /\ best_netlist_file' = {iteration}
                /\ <<iteration, best_cost>> \in costs
           /\ best_genlib_file' # best_genlib_file =>
                /\ best_genlib_file' = {iteration}
                /\ <<iteration, best_cost>> \in costs
         ]_vars

\* C17 witness: after the first iteration was promoted, the second,
\* evaluated on its own converted netlist, is not an improvement.
LaterIterationAfterPromotion ==
    /\ best_netlist_file = {0}
    /\ best_genlib_file = {0}
    /\ iteration = 1
    /\ pc = "compare"
    /\ converted_file = {1}
    /\ genlib_file = {1}
    /\ ~Less(current_cost, best_cost)
====
